---- MODULE Spec2Model ----
(***************************************************************************)
(* Model of backend/app.py: the Flask detection API of the nut and bolt    *)
(* detector.  The module globals model, CONFIDENCE_THRESHOLD,              *)
(* IOU_THRESHOLD and INPUT_SIZE are the shared state; the route handlers   *)
(* detect, get_config, update_config and health_check are the operations.  *)
(*                                                                         *)
(* Units.  Thresholds are fixed-point hundredths (0.5 is 50).  Box         *)
(* coordinates are fixed-point thousandths of a pixel (10.0 px is 10000),  *)
(* confidences are ten-thousandths (0.9 is 9000).  Image sizes are whole   *)
(* pixels.  round(x, 2) and round(c, 3) are therefore real roundings.      *)
(*                                                                         *)
(* Python strings are modelled as the sequence of their comma-separated    *)
(* parts, so that str.split(',') and the membership test ',' in s are      *)
(* computed and not assumed.                                               *)
(***************************************************************************)
EXTENDS Integers, Sequences, FiniteSets, TLC

(***************************************************************************)
(* Bounds of the model.                                                    *)
(***************************************************************************)
MaxBoxes == 2      \* raw boxes the detector returns for one image
NThreads == 2      \* handler threads of the threaded server

(***************************************************************************)
(* Module constants of app.py.                                             *)
(***************************************************************************)
DEFAULT_CONFIDENCE_THRESHOLD == 50
DEFAULT_IOU_THRESHOLD == 45
DEFAULT_INPUT_SIZE == 640
MAX_BOX_RATIO == 1
MIN_BOX_SIZE == 5
MAX_BOX_SIZE == 2000
CLASS_NAMES == <<"Bolt", "Nut">>
DEFAULT_COLOR == <<0, 255, 0>>
CLASS_COLORS == [Bolt |-> <<0, 191, 255>>, Nut |-> <<255, 165, 0>>]

(***************************************************************************)
(* Python values that travel through the handlers.                         *)
(***************************************************************************)
None == [py |-> "None"]
Num(n) == [py |-> "num", n |-> n]
Str(parts) == [py |-> "str", parts |-> parts]
List(items) == [py |-> "list", items |-> items]
Dict(f) == [py |-> "dict", f |-> f]
Absent == [py |-> "absent"]       \* a request that carries no JSON payload

Raise(type, msg) == [raised |-> TRUE, type |-> type, msg |-> msg]
Return(v) == [raised |-> FALSE, value |-> v]

\* bool(v): the truth value Python gives v in "not data" and "if error".
Truthy(v) ==
    CASE v.py = "None" -> FALSE
      [] v.py = "num"  -> v.n # 0
      [] v.py = "str"  -> v.parts # <<"">>
      [] v.py = "list" -> v.items # << >>
      [] v.py = "dict" -> DOMAIN v.f # {}
      [] OTHER -> TRUE

\* key in v: membership for dict, element test for list, substring test for
\* str (a part of the string equal to the key), TypeError otherwise.
Contains(v, key) ==
    CASE v.py = "dict" -> Return(key \in DOMAIN v.f)
      [] v.py = "list" -> Return(\E i \in DOMAIN v.items : v.items[i] = Str(<<key>>))
      [] v.py = "str"  -> Return(\E i \in DOMAIN v.parts : v.parts[i] = key)
      [] OTHER -> Raise("TypeError", "argument is not iterable")

\* v[key] for a string key.
GetItem(v, key) ==
    CASE v.py = "dict" ->
           IF key \in DOMAIN v.f THEN Return(v.f[key]) ELSE Raise("KeyError", key)
      [] v.py = "list" -> Raise("TypeError", "list indices must be integers")
      [] v.py = "str"  -> Raise("TypeError", "string indices must be integers")
      [] OTHER -> Raise("TypeError", "object is not subscriptable")

\* The decimal literals float() is given in this model, in hundredths.
FloatLiterals == [lit \in {"0.7", "1.5"} |-> IF lit = "0.7" THEN 70 ELSE 150]

\* float(v): numbers pass, numeric strings parse, everything else raises.
Float(v) ==
    CASE v.py = "num" -> Return(v.n)
      [] v.py = "str" ->
           IF Len(v.parts) = 1 /\ v.parts[1] \in DOMAIN FloatLiterals
           THEN Return(FloatLiterals[v.parts[1]])
           ELSE Raise("ValueError", "could not convert string to float")
      [] OTHER -> Raise("TypeError", "float() argument must be a string or a number")

\* seq[i] with Python's indexing: zero-based, negative indices count from
\* the end, anything else is an IndexError.
PyIndex(seq, i) ==
    IF i >= 0 /\ i < Len(seq) THEN Return(seq[i + 1])
    ELSE IF i < 0 /\ i >= -Len(seq) THEN Return(seq[Len(seq) + i + 1])
    ELSE Raise("IndexError", "list index out of range")

\* round(x, ndigits) on a fixed-point number: the nearest multiple of q,
\* a tie going to the even multiple.
Round(x, q) ==
    LET lo == (x \div q) * q
        r  == x - lo
    IN  IF 2 * r < q THEN lo
        ELSE IF 2 * r > q THEN lo + q
        ELSE IF (lo \div q) % 2 = 0 THEN lo ELSE lo + q

Abs(n) == IF n < 0 THEN -n ELSE n

\* prefix + s, as an f-string builds it.
Prepend(prefix, s) == Str(<<prefix \o s.parts[1]>> \o Tail(s.parts))

(***************************************************************************)
(* decode_image.  A payload part is one of the tokens below: the base64    *)
(* text of an image file, the base64 text of bytes that are no image, text *)
(* that is no base64, or the scheme segment of a data URL.                 *)
(***************************************************************************)
Bytes(kind, mode, w, h) == [kind |-> kind, mode |-> mode, w |-> w, h |-> h]

\* base64.b64decode
B64Decode(part) ==
    CASE part = "JPEG_RGB_40x30" -> Return(Bytes("image", "RGB", 40, 30))
      [] part = "PNG_L_40x30"    -> Return(Bytes("image", "L", 40, 30))
      [] part = "TEXT"           -> Return(Bytes("text", "", 0, 0))
      [] OTHER -> Raise("binascii.Error", "Incorrect padding")

\* Image.open
ImageOpen(bytes) ==
    IF bytes.kind = "image"
    THEN Return([mode |-> bytes.mode, w |-> bytes.w, h |-> bytes.h])
    ELSE Raise("UnidentifiedImageError", "cannot identify image file")

\* The numpy array handed to the detector: shape (h, w, 3) and channel order.
Array(order, w, h) == [py |-> "ndarray", order |-> order, w |-> w, h |-> h]

decode_image(image_data) ==
    IF image_data.py # "str" THEN None          \* TypeError inside the try
    ELSE
      LET payload == IF Len(image_data.parts) > 1
                     THEN image_data.parts[2] ELSE image_data.parts[1]
          image_bytes == B64Decode(payload)
      IN  IF image_bytes.raised THEN None
          ELSE LET image == ImageOpen(image_bytes.value)
               IN  IF image.raised THEN None
                   ELSE LET rgb == [image.value EXCEPT !.mode = "RGB"]
                        IN  Array("BGR", rgb.w, rgb.h)

(***************************************************************************)
(* run_detection.                                                          *)
(***************************************************************************)
Box(x1, y1, x2, y2, conf, cls) ==
    [xyxy |-> <<x1, y1, x2, y2>>, conf |-> conf, cls |-> cls]

box_width(box) == box.xyxy[3] - box.xyxy[1]
box_height(box) == box.xyxy[4] - box.xyxy[2]

\* Filter 1: box_width > MAX_BOX_SIZE or box_height > MAX_BOX_SIZE
TooLarge(box) ==
    box_width(box) > MAX_BOX_SIZE * 1000 \/ box_height(box) > MAX_BOX_SIZE * 1000

\* A slip: the size test taken on abs(width) and abs(height).
TooSmall_unsigned(box) ==
    Abs(box_width(box)) < MIN_BOX_SIZE * 1000 \/ Abs(box_height(box)) < MIN_BOX_SIZE * 1000

\* A slip: "and" where the filter has "or".
TooSmall_both(box) ==
    box_width(box) < MIN_BOX_SIZE * 1000 /\ box_height(box) < MIN_BOX_SIZE * 1000

\* Filter 2: box_width < MIN_BOX_SIZE or box_height < MIN_BOX_SIZE
TooSmall(box) ==
    box_width(box) < MIN_BOX_SIZE * 1000 \/ box_height(box) < MIN_BOX_SIZE * 1000

\* Filter 3: box_area / img_area > MAX_BOX_RATIO, that is
\* box_width * box_height > MAX_BOX_RATIO * img_area.  For integers w, h > 0
\* and L >= 0, w * h > L exactly when w > L \div h, which keeps the
\* comparison inside the integers of the model checker.
RatioTooLarge(box, image) ==
    LET w == box_width(box)
        h == box_height(box)
        img_area == image.w * image.h
        limit == MAX_BOX_RATIO * img_area * 1000000
    IN  IF w = 0 \/ h = 0 \/ (w < 0) # (h < 0) THEN FALSE
        ELSE Abs(w) > limit \div Abs(h)

\* model.names of the loaded detector: its own index -> name table.
ModelNames == (0 :> "Bolt") @@ (1 :> "Nut") @@ (2 :> "Washer")

\* Lines 172-177: the class name of a class index.
ClassName(class_id) ==
    IF class_id < Len(CLASS_NAMES)
    THEN PyIndex(CLASS_NAMES, class_id)
    ELSE Return(IF class_id \in DOMAIN ModelNames
                THEN ModelNames[class_id]
                ELSE "class_" \o ToString(class_id))

\* CLASS_COLORS.get(class_name, (0, 255, 0))
ColorOf(class_name) ==
    IF class_name \in DOMAIN CLASS_COLORS THEN CLASS_COLORS[class_name]
    ELSE DEFAULT_COLOR

\* Lines 182-192: the record appended for an accepted box.
Detection(box, class_name) ==
    [class |-> class_name,
     confidence |-> Round(box.conf, 10),
     bbox |-> [x1 |-> Round(box.xyxy[1], 10), y1 |-> Round(box.xyxy[2], 10),
               x2 |-> Round(box.xyxy[3], 10), y2 |-> Round(box.xyxy[4], 10)],
     color |-> ColorOf(class_name)]

\* A slip: the loop without filter 3.
Skipped_without_ratio(box, image) == TooLarge(box) \/ TooSmall(box)

\* The three filters of lines 152-166, in the order the loop applies them.
Skipped(box, image) ==
    TooLarge(box) \/ TooSmall(box) \/ RatioTooLarge(box, image)

\* The loop over result.boxes (lines 141-192), from box i on, with the
\* detections accumulated so far; an exception abandons the loop.
RECURSIVE ProcessBoxes(_, _, _, _)
ProcessBoxes(boxes, i, image, detections) ==
    IF i > Len(boxes) THEN Return(detections)
    ELSE IF Skipped(boxes[i], image)
         THEN ProcessBoxes(boxes, i + 1, image, detections)
         ELSE LET class_name == ClassName(boxes[i].cls)
              IN  IF class_name.raised THEN class_name
                  ELSE ProcessBoxes(boxes, i + 1, image,
                         Append(detections, Detection(boxes[i], class_name.value)))

\* The loop over results (lines 133-192); result.boxes may be None.
RECURSIVE ProcessResults(_, _, _, _)
ProcessResults(results, r, image, detections) ==
    IF r > Len(results) THEN Return(detections)
    ELSE IF results[r].boxes = None
         THEN ProcessResults(results, r + 1, image, detections)
         ELSE LET done == ProcessBoxes(results[r].boxes.items, 1, image, detections)
              IN  IF done.raised THEN done
                  ELSE ProcessResults(results, r + 1, image, done.value)

\* What run_detection returns: the pair (detections, error).
Pair(detections, error) == [detections |-> detections, error |-> error]

\* run_detection(image), given the loaded model and what the detector call
\* model(image, conf=..., iou=..., imgsz=...) does: it raises or it returns
\* results.
run_detection(mdl, image, outcome) ==
    IF mdl = None THEN Pair(None, Str(<<"Model not loaded">>))
    ELSE IF outcome.raised THEN Pair(None, Str(<<outcome.msg>>))
    ELSE LET done == ProcessResults(outcome.value, 1, image, << >>)
         IN  IF done.raised THEN Pair(None, Str(<<done.msg>>))
             ELSE Pair(List(done.value), None)

(***************************************************************************)
(* The HTTP layer.                                                         *)
(***************************************************************************)
\* A response: its status, who produced it (the route handler, the 500
\* error handler, or the framework answering an HTTPException) and its JSON.
Reply(status, by, body) == [status |-> status, by |-> by, body |-> body]

\* jsonify({...}), status
Failure(status, error) ==
    Reply(status, "handler", [success |-> FALSE, error |-> error, detections |-> << >>])

\* @app.errorhandler(500): where an exception that leaves a handler ends.
server_error(e) ==
    Reply(500, "server_error", [error |-> "Internal server error", message |-> e.msg])

\* request.get_json().  A body that is JSON is returned parsed.  For a
\* request without a JSON payload the installed Flask decides: it returns
\* None or it aborts the request with an HTTPException; aborts picks one.
get_json(body, aborts) ==
    IF body = Absent
    THEN IF aborts THEN Raise("HTTPException", "Unsupported Media Type")
         ELSE Return(None)
    ELSE Return(body)

\* The framework's answer to an HTTPException raised inside a handler.
http_exception(e) == Reply(415, "framework", [error |-> e.msg])

\* What a handler run did: its response, whether decode_image ran and
\* whether the detector was called.
Handled(reply, decoded, invoked) ==
    [reply |-> reply, decoded |-> decoded, invoked |-> invoked]

\* A slip: counts[class_name] = 1, the earlier count forgotten.
RECURSIVE CountByClass_forgetful(_, _, _)
CountByClass_forgetful(detections, i, counts) ==
    IF i > Len(detections) THEN counts
    ELSE LET class_name == detections[i].class
         IN  CountByClass_forgetful(detections, i + 1,
                 [c \in DOMAIN counts \cup {class_name} |->
                     IF c = class_name THEN 1 ELSE counts[c]])

\* Lines 263-267: counts[class_name] = counts.get(class_name, 0) + 1
RECURSIVE CountByClass(_, _, _)
CountByClass(detections, i, counts) ==
    IF i > Len(detections) THEN counts
    ELSE LET class_name == detections[i].class
             seen == IF class_name \in DOMAIN counts THEN counts[class_name] ELSE 0
         IN  CountByClass(detections, i + 1,
                 [c \in DOMAIN counts \cup {class_name} |->
                     IF c = class_name THEN seen + 1 ELSE counts[c]])

\* Lines 260-279: the success response (processing_time_ms, a clock
\* reading, is left out).
Success(detections, image) ==
    Reply(200, "handler",
          [success |-> TRUE,
           detections |-> detections,
           counts |-> CountByClass(detections, 1, << >>),
           total |-> Len(detections),
           image_size |-> [width |-> image.w, height |-> image.h]])

\* Lines 250-279: detect() from the call of run_detection on.
detect_run(mdl, image, outcome) ==
    LET result == run_detection(mdl, image, outcome)
    IN  IF Truthy(result.error)
        THEN Handled(Failure(500, Prepend("Detection failed: ", result.error)),
                     TRUE, TRUE)
        ELSE IF result.detections = None
        THEN Handled(server_error(Raise("TypeError", "'NoneType' object is not iterable")),
                     TRUE, TRUE)
        ELSE Handled(Success(result.detections.items, image), TRUE, TRUE)

\* detect() up to the call of run_detection (lines 220-248): either the
\* handler is finished with a response, or it holds the decoded image.
Finished(handled) == [finished |-> TRUE, handled |-> handled]
Decoded(image) == [finished |-> FALSE, image |-> image]

NoImage ==
    Finished(Handled(Failure(400, Str(<<"No image data provided. Send JSON with \"image\" field containing base64 data.">>)),
                     FALSE, FALSE))

\* Lines 233-248, once "not data" is false: the 'image' test, the lookup
\* and decode_image.
detect_image(data) ==
    LET has == Contains(data, "image")
    IN  IF has.raised THEN Finished(Handled(server_error(has), FALSE, FALSE))
        ELSE IF ~has.value THEN NoImage
        ELSE LET field == GetItem(data, "image")
             IN  IF field.raised
                 THEN Finished(Handled(server_error(field), FALSE, FALSE))
                 ELSE LET image == decode_image(field.value)
                      IN  IF image = None
                          THEN Finished(Handled(Failure(400, Str(<<"Failed to decode image. Ensure valid base64 format.">>)),
                                                TRUE, FALSE))
                          ELSE Decoded(image)

\* A slip: "if 'image' not in data" without the "not data" test.
detect_data_unguarded(body, aborts) ==
    LET data == get_json(body, aborts)
    IN  IF data.raised THEN Finished(Handled(http_exception(data), FALSE, FALSE))
        ELSE detect_image(data.value)

\* Lines 230-238: get_json and "if not data or 'image' not in data".
detect_data(body, aborts) ==
    LET data == get_json(body, aborts)
    IN  IF data.raised THEN Finished(Handled(http_exception(data), FALSE, FALSE))
        ELSE IF ~Truthy(data.value) THEN NoImage
        ELSE detect_image(data.value)

\* A slip: the handler without its "model is None" test.
detect_entry_unchecked(mdl, body, aborts) == detect_data(body, aborts)

\* Lines 222-248.
detect_entry(mdl, body, aborts) ==
    IF mdl = None
    THEN Finished(Handled(Failure(503, Str(<<"Model not loaded. Please check server logs.">>)),
                          FALSE, FALSE))
    ELSE detect_data(body, aborts)

\* A slip: float(data.get(key, <default>)), which resets a global whose key
\* the body leaves out.
Assigned_or_default(data, key, old) ==
    LET has == Contains(data, key)
    IN  IF has.raised THEN has
        ELSE IF ~has.value
             THEN Return(IF key = "confidence_threshold"
                         THEN DEFAULT_CONFIDENCE_THRESHOLD ELSE DEFAULT_IOU_THRESHOLD)
        ELSE LET field == GetItem(data, key)
             IN  IF field.raised THEN field ELSE Float(field.value)

\* Lines 301-305: "if key in data: GLOBAL = float(data[key])": the new value
\* of the global, or the exception the statement raises.
Assigned(data, key, old) ==
    LET has == Contains(data, key)
    IN  IF has.raised THEN has
        ELSE IF ~has.value THEN Return(old)
        ELSE LET field == GetItem(data, key)
             IN  IF field.raised THEN field ELSE Float(field.value)

\* Lines 307-311 and 285-291 and 203-210: the bodies of the config and
\* health responses.
ConfigUpdated(conf, iou) ==
    Reply(200, "handler",
          [success |-> TRUE, confidence_threshold |-> conf, iou_threshold |-> iou])

ConfigShown(conf, iou, size) ==
    Reply(200, "handler",
          [confidence_threshold |-> conf, iou_threshold |-> iou, input_size |-> size,
           class_names |-> CLASS_NAMES, class_colors |-> CLASS_COLORS])

Health(mdl, conf, size) ==
    Reply(200, "handler",
          [status |-> "online", model_loaded |-> (mdl # None),
           class_names |-> CLASS_NAMES, confidence_threshold |-> conf,
           input_size |-> size])

(***************************************************************************)
(* Requests and detector behaviours the model draws from.                  *)
(***************************************************************************)
Field(key, value) == Dict(key :> value)

ImagePayloads ==
    { Str(<<"JPEG_RGB_40x30">>),
      Str(<<"data:image/png;base64", "PNG_L_40x30">>),
      Str(<<"TEXT">>),
      Str(<<"data:image/jpeg;base64", "not base64">>),
      Num(7) }

DetectBodies ==
    { Absent, None, Num(5), Str(<<"image">>), List(<<Num(1)>>),
      Dict(<< >>), Field("note", Str(<<"hello">>)) }
    \cup { Field("image", payload) : payload \in ImagePayloads }

ConfigBodies ==
    { Absent, None, Num(5), Dict(<< >>),
      Field("confidence_threshold", Num(70)),
      Field("confidence_threshold", Num(150)),
      Field("confidence_threshold", Str(<<"0.7">>)),
      Field("confidence_threshold", Str(<<"abc">>)),
      Field("iou_threshold", Num(70)),
      Field("input_size", Num(32000)),
      Dict(("confidence_threshold" :> Num(70)) @@ ("iou_threshold" :> Num(70))),
      Dict(("confidence_threshold" :> Num(70)) @@ ("iou_threshold" :> Str(<<"abc">>))) }

\* Raw boxes: (x1, y1, x2, y2) in thousandths of a pixel, confidence in
\* ten-thousandths, class index.
RawBoxes ==
    { Box(10000, 10000, 20004, 20006, 9000, 0),        \* 10 x 10 px Bolt
      Box(12003, 5000, 20000, 25000, 8766, 1),         \* 8 x 20 px Nut
      Box(10000, 10000, 13000, 20000, 10000, 0),       \* 3 px wide
      Box(0, 0, 2001000, 10000, 9000, 1),              \* 2001 px wide
      Box(0, 0, 41000, 30000, 10000, 0),               \* 41 x 30 px on a 40 x 30 image
      Box(20000, 20000, 10000, 10000, 9000, 0),        \* inverted corners
      Box(10000, 10000, 20000, 20000, 9000, 2),        \* index known to the detector only
      Box(10000, 10000, 20000, 20000, 9000, 3),        \* index known to nobody
      Box(10000, 10000, 20000, 20000, 9000, -1),
      Box(10000, 10000, 20000, 20000, 9000, -3) }

BoxSeqs == UNION { [1..n -> RawBoxes] : n \in 0..MaxBoxes }

\* What the call model(image, ...) can do: raise, or return one result whose
\* boxes are None or a list of raw boxes.
DetectorOutcomes ==
    { Raise("RuntimeError", "CUDA out of memory"), Raise("Exception", ""),
      Return(<<[boxes |-> None]>>) }
    \cup { Return(<<[boxes |-> List(boxes)]>>) : boxes \in BoxSeqs }

\* The detector behaviours drawn from when handlers interleave: the same,
\* with at most one raw box per image.
ShortOutcomes ==
    { outcome \in DetectorOutcomes :
        \/ outcome.raised
        \/ outcome.value[1].boxes = None
        \/ Len(outcome.value[1].boxes.items) <= 1 }

(***************************************************************************)
(* State.                                                                  *)
(***************************************************************************)
VARIABLES
    model,                   \* None or the loaded detector
    CONFIDENCE_THRESHOLD,
    IOU_THRESHOLD,
    INPUT_SIZE,
    threads                  \* what each handler thread of the server is doing

vars == <<model, CONFIDENCE_THRESHOLD, IOU_THRESHOLD, INPUT_SIZE, threads>>

Threads == 1..NThreads
YOLO == [py |-> "YOLO"]

Idle == [pc |-> "idle"]

\* A handler that has produced its response: the request, what it did, the
\* detector's behaviour and the arguments the detector was called with.
Done(route, body, handled, raw, args) ==
    [pc |-> "done", route |-> route, body |-> body, reply |-> handled.reply,
     decoded |-> handled.decoded, invoked |-> handled.invoked,
     raw |-> raw, args |-> args]

\* The state when app.run starts serving: load_model() has left model set
\* or None; the other globals hold their defaults.
Init ==
    /\ model \in {None, YOLO}
    /\ CONFIDENCE_THRESHOLD = DEFAULT_CONFIDENCE_THRESHOLD
    /\ IOU_THRESHOLD = DEFAULT_IOU_THRESHOLD
    /\ INPUT_SIZE = DEFAULT_INPUT_SIZE
    /\ threads = [t \in Threads |-> Idle]

Config == <<CONFIDENCE_THRESHOLD, IOU_THRESHOLD>>

(***************************************************************************)
(* POST /detect.  The handler touches shared state where it reads the      *)
(* globals for the detector call: CONFIDENCE_THRESHOLD first, then         *)
(* IOU_THRESHOLD and INPUT_SIZE.                                           *)
(***************************************************************************)
DetectBegin(t) ==
    /\ threads[t] = Idle
    /\ \E body \in DetectBodies, aborts \in BOOLEAN :
         LET entry == detect_entry(model, body, aborts)
         IN  threads' = [threads EXCEPT ![t] =
                 IF entry.finished
                 THEN Done("POST /detect", body, entry.handled, None, None)
                 ELSE [pc |-> "run_detection", body |-> body, image |-> entry.image,
                       conf |-> CONFIDENCE_THRESHOLD]]
    /\ UNCHANGED <<model, CONFIDENCE_THRESHOLD, IOU_THRESHOLD, INPUT_SIZE>>

\* A slip: the detections list kept at module level instead of inside
\* run_detection, so that a call appends to what earlier calls, whose
\* responses are still held, have left in it.
RECURSIVE Carried(_)
Carried(n) ==
    IF n = 0 THEN << >>
    ELSE Carried(n - 1) \o
         ( IF /\ threads[n].pc = "done"
              /\ threads[n].route = "POST /detect"
              /\ threads[n].reply.status = 200
           THEN threads[n].reply.body.detections ELSE << >> )

DetectCall_accumulating(t, outcomes) ==
    /\ threads[t].pc = "run_detection"
    /\ \E outcome \in outcomes :
         LET handled == detect_run(model, threads[t].image, outcome)
             shared == IF handled.reply.status = 200
                       THEN [handled EXCEPT !.reply =
                               Success(Carried(NThreads) \o handled.reply.body.detections,
                                       threads[t].image)]
                       ELSE handled
         IN  threads' = [threads EXCEPT ![t] =
                 Done("POST /detect", threads[t].body, shared, outcome,
                      [conf |-> threads[t].conf, iou |-> IOU_THRESHOLD, imgsz |-> INPUT_SIZE])]
    /\ UNCHANGED <<model, CONFIDENCE_THRESHOLD, IOU_THRESHOLD, INPUT_SIZE>>

\* A slip: run_detection declaring "global IOU_THRESHOLD" and putting the
\* default back after the call.
DetectCall_resetting(t, outcomes) ==
    /\ threads[t].pc = "run_detection"
    /\ \E outcome \in outcomes :
         threads' = [threads EXCEPT ![t] =
             Done("POST /detect", threads[t].body,
                  detect_run(model, threads[t].image, outcome), outcome,
                  [conf |-> threads[t].conf, iou |-> IOU_THRESHOLD, imgsz |-> INPUT_SIZE])]
    /\ IOU_THRESHOLD' = DEFAULT_IOU_THRESHOLD
    /\ UNCHANGED <<model, CONFIDENCE_THRESHOLD, INPUT_SIZE>>

DetectCall(t, outcomes) ==
    /\ threads[t].pc = "run_detection"
    /\ \E outcome \in outcomes :
         threads' = [threads EXCEPT ![t] =
             Done("POST /detect", threads[t].body,
                  detect_run(model, threads[t].image, outcome), outcome,
                  [conf |-> threads[t].conf, iou |-> IOU_THRESHOLD, imgsz |-> INPUT_SIZE])]
    /\ UNCHANGED <<model, CONFIDENCE_THRESHOLD, IOU_THRESHOLD, INPUT_SIZE>>

(***************************************************************************)
(* POST /config.  The two assignments to the globals are separate          *)
(* statements, and the response reads the two globals again.  old is the   *)
(* configuration the handler found when it started; the code does not keep *)
(* it, the record does so that a half-applied update can be recognised.    *)
(***************************************************************************)
ConfigBegin(t) ==
    /\ threads[t] = Idle
    /\ \E body \in ConfigBodies, aborts \in BOOLEAN :
         LET data == get_json(body, aborts)
             conf == Assigned(data.value, "confidence_threshold", CONFIDENCE_THRESHOLD)
             Fails(reply) ==
                 /\ threads' = [threads EXCEPT ![t] =
                        Done("POST /config", body, Handled(reply, FALSE, FALSE), None, None)]
                 /\ UNCHANGED CONFIDENCE_THRESHOLD
         IN  IF data.raised THEN Fails(http_exception(data))
             ELSE IF conf.raised THEN Fails(server_error(conf))
             ELSE /\ CONFIDENCE_THRESHOLD' = conf.value
                  /\ threads' = [threads EXCEPT ![t] =
                         [pc |-> "update_iou", body |-> body, old |-> Config]]
    /\ UNCHANGED <<model, IOU_THRESHOLD, INPUT_SIZE>>

ConfigIou(t) ==
    /\ threads[t].pc = "update_iou"
    /\ LET iou == Assigned(threads[t].body, "iou_threshold", IOU_THRESHOLD)
       IN  IF iou.raised
           THEN /\ threads' = [threads EXCEPT ![t] =
                       Done("POST /config", threads[t].body,
                            Handled(server_error(iou), FALSE, FALSE), None, None)]
                /\ UNCHANGED IOU_THRESHOLD
           ELSE /\ IOU_THRESHOLD' = iou.value
                /\ threads' = [threads EXCEPT ![t] =
                       [pc |-> "update_reply", body |-> threads[t].body]]
    /\ UNCHANGED <<model, CONFIDENCE_THRESHOLD, INPUT_SIZE>>

ConfigReplyConf(t) ==
    /\ threads[t].pc = "update_reply"
    /\ threads' = [threads EXCEPT ![t] =
           [pc |-> "update_reply_iou", body |-> threads[t].body,
            conf |-> CONFIDENCE_THRESHOLD]]
    /\ UNCHANGED <<model, CONFIDENCE_THRESHOLD, IOU_THRESHOLD, INPUT_SIZE>>

ConfigReplyIou(t) ==
    /\ threads[t].pc = "update_reply_iou"
    /\ threads' = [threads EXCEPT ![t] =
           Done("POST /config", threads[t].body,
                Handled(ConfigUpdated(threads[t].conf, IOU_THRESHOLD), FALSE, FALSE),
                None, None)]
    /\ UNCHANGED <<model, CONFIDENCE_THRESHOLD, IOU_THRESHOLD, INPUT_SIZE>>

(***************************************************************************)
(* GET /config and GET /health.                                            *)
(***************************************************************************)
GetConfigBegin(t) ==
    /\ threads[t] = Idle
    /\ threads' = [threads EXCEPT ![t] =
           [pc |-> "get_config", conf |-> CONFIDENCE_THRESHOLD]]
    /\ UNCHANGED <<model, CONFIDENCE_THRESHOLD, IOU_THRESHOLD, INPUT_SIZE>>

GetConfigEnd(t) ==
    /\ threads[t].pc = "get_config"
    /\ threads' = [threads EXCEPT ![t] =
           Done("GET /config", None,
                Handled(ConfigShown(threads[t].conf, IOU_THRESHOLD, INPUT_SIZE),
                        FALSE, FALSE),
                None, None)]
    /\ UNCHANGED <<model, CONFIDENCE_THRESHOLD, IOU_THRESHOLD, INPUT_SIZE>>

HealthCheck(t) ==
    /\ threads[t] = Idle
    /\ threads' = [threads EXCEPT ![t] =
           Done("GET /health", None,
                Handled(Health(model, CONFIDENCE_THRESHOLD, INPUT_SIZE), FALSE, FALSE),
                None, None)]
    /\ UNCHANGED <<model, CONFIDENCE_THRESHOLD, IOU_THRESHOLD, INPUT_SIZE>>

\* The response leaves the server and the thread is free again.
Respond(t) ==
    /\ threads[t].pc = "done"
    /\ threads' = [threads EXCEPT ![t] = Idle]
    /\ UNCHANGED <<model, CONFIDENCE_THRESHOLD, IOU_THRESHOLD, INPUT_SIZE>>

\* Requests served one at a time: a thread runs only while the others are idle.
Alone(t) == \A u \in Threads \ {t} : threads[u] = Idle

Next ==
    \E t \in Threads :
        \/ Alone(t) /\ DetectBegin(t)
        \/ Alone(t) /\ DetectCall(t, DetectorOutcomes)
        \/ Alone(t) /\ ConfigBegin(t)
        \/ Alone(t) /\ ConfigIou(t)
        \/ Alone(t) /\ ConfigReplyConf(t)
        \/ Alone(t) /\ ConfigReplyIou(t)
        \/ Alone(t) /\ GetConfigBegin(t)
        \/ Alone(t) /\ GetConfigEnd(t)
        \/ Alone(t) /\ HealthCheck(t)
        \/ Alone(t) /\ Respond(t)

Spec == Init /\ [][Next]_vars

\* app.run(threaded=True): handlers of different requests interleave at
\* every access to a global.
NextThreaded ==
    \E t \in Threads :
        \/ DetectBegin(t)
        \/ DetectCall(t, ShortOutcomes)
        \/ ConfigBegin(t)
        \/ ConfigIou(t)
        \/ ConfigReplyConf(t)
        \/ ConfigReplyIou(t)
        \/ GetConfigBegin(t)
        \/ GetConfigEnd(t)
        \/ HealthCheck(t)
        \/ Respond(t)

SpecThreaded == Init /\ [][NextThreaded]_vars

\* The threaded server receiving detection requests only.
NextDetections ==
    \E t \in Threads :
        \/ DetectBegin(t)
        \/ DetectCall(t, ShortOutcomes)
        \/ Respond(t)

SpecDetections == Init /\ [][NextDetections]_vars

(***************************************************************************)
(* Properties.                                                             *)
(***************************************************************************)
\* The handler runs that have produced their response.
Served(route) == { t \in Threads : threads[t].pc = "done" /\ threads[t].route = route }

\* The failure envelope {success: false, error, detections: []} with a status.
IsFailure(reply, status) ==
    /\ reply.by = "handler"
    /\ reply.status = status
    /\ DOMAIN reply.body = {"success", "error", "detections"}
    /\ reply.body.success = FALSE
    /\ reply.body.detections = << >>

IsSuccess(reply) ==
    /\ reply.by = "handler"
    /\ reply.status = 200
    /\ reply.body.success = TRUE

\* The image payloads that are the base64 text of an image file, with or
\* without a data-URL prefix.
ImageTexts == {"JPEG_RGB_40x30", "PNG_L_40x30"}
IsImage(payload) ==
    /\ payload.py = "str"
    /\ \/ Len(payload.parts) = 1 /\ payload.parts[1] \in ImageTexts
       \/ Len(payload.parts) > 1 /\ payload.parts[2] \in ImageTexts

\* The requests of C1: no JSON body, no 'image' field, or an image that
\* cannot be decoded.
BadImageRequest(body) ==
    \/ body \in {Absent, None}
    \/ body.py = "dict" /\ "image" \notin DOMAIN body.f
    \/ body.py = "dict" /\ "image" \in DOMAIN body.f /\ ~IsImage(body.f["image"])

C2_NoModelIs503 ==
    model = None =>
        \A t \in Served("POST /detect") :
            /\ IsFailure(threads[t].reply, 503)
            /\ ~threads[t].decoded
            /\ ~threads[t].invoked

\* C2 witness: with no model, a request carrying a decodable image has been
\* answered.
C2_Witness ==
    \E t \in Served("POST /detect") :
        /\ model = None
        /\ threads[t].body = Field("image", Str(<<"JPEG_RGB_40x30">>))
        /\ threads[t].reply.status = 503

\* C3: whenever the detector call raises, with any message, the request is
\* answered with status 500 and the failure envelope whose error is
\* 'Detection failed: <message>'.
C3_DetectorErrorIs500 ==
    \A t \in Served("POST /detect") :
        (threads[t].invoked /\ threads[t].raw.raised)
            => /\ IsFailure(threads[t].reply, 500)
               /\ threads[t].reply.body.error
                     = Str(<<"Detection failed: " \o threads[t].raw.msg>>)

\* C4: for every request to POST /detect and POST /config, whatever its
\* body, no exception leaves the handler for the 500 error handler.
C4_NoExceptionEscapes ==
    \A t \in Served("POST /detect") \cup Served("POST /config") :
        threads[t].reply.by # "server_error"

\* The raw boxes the detector returned to a handler run, the image it was
\* given and the detections the response carries.
RawBoxesOf(th) ==
    IF th.raw.raised \/ th.raw.value[1].boxes = None THEN << >>
    ELSE th.raw.value[1].boxes.items

ImageOf(th) == decode_image(th.body.f["image"])

Emitted(th) ==
    IF th.reply.by = "handler" THEN th.reply.body.detections ELSE << >>

\* d is the record run_detection builds for the raw box.
FromBox(d, box) ==
    /\ d.confidence = Round(box.conf, 10)
    /\ d.bbox = [x1 |-> Round(box.xyxy[1], 10), y1 |-> Round(box.xyxy[2], 10),
                 x2 |-> Round(box.xyxy[3], 10), y2 |-> Round(box.xyxy[4], 10)]

\* The handler runs in which the detector returned (it did not raise).
Detected == { t \in Served("POST /detect") : threads[t].invoked /\ ~threads[t].raw.raised }

\* C5: in every successful POST /detect response counts[c] is the number of
\* detections of class c, counts has no other key, total is the number of
\* detections, and with no raw boxes the response has detections = [],
\* counts = {} and total = 0.
C5_CountsMatchDetections ==
    \A t \in Served("POST /detect") :
        IsSuccess(threads[t].reply) =>
            LET b == threads[t].reply.body
            IN  /\ DOMAIN b.counts = { b.detections[i].class : i \in DOMAIN b.detections }
                /\ \A c \in DOMAIN b.counts :
                       b.counts[c] = Cardinality({ i \in DOMAIN b.detections :
                                                     b.detections[i].class = c })
                /\ b.total = Len(b.detections)
                /\ RawBoxesOf(threads[t]) = << >> =>
                       b.detections = << >> /\ DOMAIN b.counts = {} /\ b.total = 0

\* C5 witness: a successful response with two detections of one class.
C5_Witness ==
    \E t \in Served("POST /detect") :
        /\ IsSuccess(threads[t].reply)
        /\ Len(threads[t].reply.body.detections) = 2
        /\ threads[t].reply.body.detections[1].class = "Bolt"
        /\ threads[t].reply.body.detections[2].class = "Bolt"

\* The boxes of C6: width or height below MIN_BOX_SIZE pixels.
Narrow(box) ==
    \/ box.xyxy[3] - box.xyxy[1] < MIN_BOX_SIZE * 1000
    \/ box.xyxy[4] - box.xyxy[2] < MIN_BOX_SIZE * 1000

\* C6: no detection in the output of run_detection comes from a raw box
\* whose width or height is below MIN_BOX_SIZE, whatever its confidence and
\* class: every detection is built from a raw box that is not narrow, there
\* are no more detections than such boxes, and narrow boxes alone give an
\* empty result and no error.
C6_NarrowBoxesDropped ==
    \A t \in Detected :
        LET boxes == RawBoxesOf(threads[t])
            dets == Emitted(threads[t])
            wide == { i \in DOMAIN boxes : ~Narrow(boxes[i]) }
        IN  /\ Len(dets) <= Cardinality(wide)
            /\ \A j \in DOMAIN dets : \E i \in wide : FromBox(dets[j], boxes[i])
            /\ wide = {} => IsSuccess(threads[t].reply) /\ dets = << >>

\* C6 witness: the detector returned a 3 pixel wide box of confidence 1.0
\* and a 10 pixel box, and the response carries one detection.
C6_Witness ==
    \E t \in Detected :
        /\ RawBoxesOf(threads[t]) = << Box(10000, 10000, 13000, 20000, 10000, 0),
                                       Box(10000, 10000, 20004, 20006, 9000, 0) >>
        /\ Len(Emitted(threads[t])) = 1

\* C7: no detection in the output of run_detection comes from a raw box
\* whose area exceeds MAX_BOX_RATIO times the image area, even at
\* confidence 1.0.
C7_OversizedBoxesDropped ==
    \A t \in Detected :
        LET boxes == RawBoxesOf(threads[t])
            dets == Emitted(threads[t])
            fitting == { i \in DOMAIN boxes : ~RatioTooLarge(boxes[i], ImageOf(threads[t])) }
        IN  /\ Len(dets) <= Cardinality(fitting)
            /\ \A j \in DOMAIN dets : \E i \in fitting : FromBox(dets[j], boxes[i])

\* C7 witness: the detector returned a 41 x 30 pixel box of confidence 1.0
\* for a 40 x 30 image, after a 10 pixel box, and the response carries one
\* detection.
C7_Witness ==
    \E t \in Detected :
        /\ RawBoxesOf(threads[t]) = << Box(10000, 10000, 20004, 20006, 9000, 0),
                                       Box(0, 0, 41000, 30000, 10000, 0) >>
        /\ Len(Emitted(threads[t])) = 1

\* The states of a thread inside update_config, and at its end.
InUpdate(th) ==
    \/ th.pc \in {"update_iou", "update_reply", "update_reply_iou"}
    \/ th.pc = "done" /\ th.route = "POST /config"

Lacks(body, key) == body.py = "dict" /\ key \notin DOMAIN body.f
Has(body, key) == body.py = "dict" /\ key \in DOMAIN body.f

\* C8: every step of a POST /config leaves INPUT_SIZE and the model alone
\* and leaves alone each threshold whose key the body does not contain; when
\* the handler has answered, each threshold whose key the body contains has
\* the value given; and GET /config answers with the current values.
C8_PartialUpdate ==
    [][ \A t \in Threads :
          /\ (threads'[t] # threads[t] /\ InUpdate(threads'[t])) =>
                LET body == threads'[t].body
                IN  /\ INPUT_SIZE' = INPUT_SIZE
                    /\ model' = model
                    /\ Lacks(body, "confidence_threshold")
                          => CONFIDENCE_THRESHOLD' = CONFIDENCE_THRESHOLD
                    /\ Lacks(body, "iou_threshold") => IOU_THRESHOLD' = IOU_THRESHOLD
                    /\ (threads'[t].pc = "done" /\ threads'[t].reply.by = "handler") =>
                          /\ Has(body, "confidence_threshold") =>
                                CONFIDENCE_THRESHOLD'
                                  = Float(body.f["confidence_threshold"]).value
                          /\ Has(body, "iou_threshold") =>
                                IOU_THRESHOLD' = Float(body.f["iou_threshold"]).value
          /\ ( /\ threads'[t] # threads[t]
               /\ threads'[t].pc = "done"
               /\ threads'[t].route = "GET /config" ) =>
                /\ threads'[t].reply.body.confidence_threshold = CONFIDENCE_THRESHOLD'
                /\ threads'[t].reply.body.iou_threshold = IOU_THRESHOLD'
                /\ threads'[t].reply.body.input_size = INPUT_SIZE'
      ]_vars

\* C8 witness: POST /config {confidence_threshold: 1.5} has answered, the
\* confidence threshold is 1.5 and the IoU threshold still has the value 0.7
\* an earlier POST gave it.
C8_Witness ==
    \E t \in Served("POST /config") :
        /\ threads[t].body = Field("confidence_threshold", Num(150))
        /\ threads[t].reply.by = "handler"
        /\ CONFIDENCE_THRESHOLD = 150
        /\ IOU_THRESHOLD = 70

\* What a reader got to see: the values GET /config answers with, or the
\* thresholds the detector was called with.
Observed(th) ==
    IF th.route = "GET /config"
    THEN <<th.reply.body.confidence_threshold, th.reply.body.iou_threshold>>
    ELSE <<th.args.conf, th.args.iou>>

SetsBoth(body) ==
    /\ Has(body, "confidence_threshold") /\ ~Float(body.f["confidence_threshold"]).raised
    /\ Has(body, "iou_threshold") /\ ~Float(body.f["iou_threshold"]).raised

\* C9: while one POST /config that sets both thresholds is between its two
\* assignments and no other update runs, a reader that finishes (GET
\* /config, or the detector call of run_detection) has seen both old values
\* or both new values.
C9_NoHalfUpdatedConfig ==
    [][ \A r, w \in Threads :
          ( /\ r # w
            /\ threads[r].pc \in {"get_config", "run_detection"}
            /\ threads'[r].pc = "done"
            /\ threads[w].pc = "update_iou"
            /\ SetsBoth(threads[w].body)
            /\ \A u \in Threads \ {w} : ~InUpdate(threads[u]) ) =>
              LET old == threads[w].old
                  new == << Float(threads[w].body.f["confidence_threshold"]).value,
                            Float(threads[w].body.f["iou_threshold"]).value >>
              IN  Observed(threads'[r]) \in {old, new}
      ]_vars

\* The name C10 gives a class index.
ExpectedName(class_id) ==
    IF class_id >= 0 /\ class_id < Len(CLASS_NAMES) THEN CLASS_NAMES[class_id + 1]
    ELSE IF class_id \in DOMAIN ModelNames THEN ModelNames[class_id]
    ELSE "class_" \o ToString(class_id)

\* C10: whatever class indices the raw boxes carry, run_detection returns
\* no error, and the detections of the boxes that pass the size filters
\* are named CLASS_NAMES[index] for an index within the list and otherwise
\* by the detector's own name or 'class_<id>'.
C10_UnknownClassNeverFails ==
    \A t \in Detected :
        LET image == ImageOf(threads[t])
            kept == SelectSeq(RawBoxesOf(threads[t]), LAMBDA box : ~Skipped(box, image))
            dets == Emitted(threads[t])
        IN  /\ IsSuccess(threads[t].reply)
            /\ Len(dets) = Len(kept)
            /\ \A j \in DOMAIN dets : dets[j].class = ExpectedName(kept[j].cls)

Accepted(box, image) ==
    LET w == box.xyxy[3] - box.xyxy[1]
        h == box.xyxy[4] - box.xyxy[2]
    IN  /\ MIN_BOX_SIZE * 1000 <= w /\ w <= MAX_BOX_SIZE * 1000
        /\ MIN_BOX_SIZE * 1000 <= h /\ h <= MAX_BOX_SIZE * 1000
        /\ ~RatioTooLarge(box, image)

\* C12: the detections run_detection returns are, one for one and in the
\* detector's order, the raw boxes that satisfy the three filters: none is
\* dropped, duplicated or reordered.
C12_ExactlyTheAcceptedBoxes ==
    \A t \in Detected :
        LET image == ImageOf(threads[t])
            kept == SelectSeq(RawBoxesOf(threads[t]), LAMBDA box : Accepted(box, image))
            dets == Emitted(threads[t])
        IN  /\ Len(dets) = Len(kept)
            /\ \A j \in DOMAIN dets : FromBox(dets[j], kept[j])

\* C13: in every reachable state confidence_threshold and iou_threshold lie
\* in [0, 1] (0 to 100 hundredths).
C13_ThresholdsInUnitInterval ==
    /\ 0 <= CONFIDENCE_THRESHOLD /\ CONFIDENCE_THRESHOLD <= 100
    /\ 0 <= IOU_THRESHOLD /\ IOU_THRESHOLD <= 100

\* C14: every detection run_detection emits has x1 < x2 and y1 < y2 in its
\* (rounded) bounding box, whatever boxes the detector returned, inverted
\* ones included.
C14_BoxCornersOrdered ==
    \A t \in Served("POST /detect") :
        \A j \in DOMAIN Emitted(threads[t]) :
            LET bbox == Emitted(threads[t])[j].bbox
            IN  bbox.x1 < bbox.x2 /\ bbox.y1 < bbox.y2

\* C14 witness: the detector returned a box with inverted corners and a
\* 10 pixel box, and the response carries one detection.
C14_Witness ==
    \E t \in Detected :
        /\ RawBoxesOf(threads[t]) = << Box(20000, 20000, 10000, 10000, 9000, 0),
                                       Box(10000, 10000, 20004, 20006, 9000, 0) >>
        /\ Len(Emitted(threads[t])) = 1
        /\ Emitted(threads[t])[1].bbox.x2 = 20000

\* The globals C15 speaks of.
Globals == <<model, CONFIDENCE_THRESHOLD, IOU_THRESHOLD, INPUT_SIZE>>

\* The states of a thread inside, or at the end of, a handler other than
\* update_config.
InReader(th) ==
    \/ th.pc \in {"run_detection", "get_config"}
    \/ th.pc = "done" /\ th.route \in {"POST /detect", "GET /config", "GET /health"}

\* C15: every step of a POST /detect, whatever its outcome, of GET /health
\* and of GET /config leaves confidence_threshold, iou_threshold, input_size
\* and the model unchanged; a step that changes one of them is a step of
\* POST /config.
C15_OnlyConfigPostWrites ==
    [][ /\ \A t \in Threads :
             (threads'[t] # threads[t] /\ InReader(threads'[t])) => Globals' = Globals
        /\ Globals' # Globals =>
             \E t \in Threads : threads'[t] # threads[t] /\ InUpdate(threads'[t])
      ]_vars

\* C15 witness: a POST /detect has been answered with 500 while both
\* thresholds hold the 0.7 an earlier POST /config gave them.
C15_Witness ==
    \E t \in Served("POST /detect") :
        /\ threads[t].reply.status = 500
        /\ threads[t].invoked
        /\ CONFIDENCE_THRESHOLD = 70
        /\ IOU_THRESHOLD = 70
        /\ threads[t].args.iou = 70

\* C16: a POST /config that fails leaves both thresholds as they were when
\* the request arrived, whichever statement of the handler failed.
C16_FailedUpdateChangesNothing ==
    [][ \A t \in Threads :
          ( /\ threads'[t] # threads[t]
            /\ threads'[t].pc = "done"
            /\ threads'[t].route = "POST /config"
            /\ threads'[t].reply.by # "handler" ) =>
              Config' = ( IF threads[t].pc = "update_iou" THEN threads[t].old
                          ELSE Config )
      ]_vars

====
